---- MODULE Spec2Model ----
(***************************************************************************)
(* Model of the retrieval-augmented answer pipeline of findMyProfessor:    *)
(* src/src/faculty_advisor.py (find_similars, make_context, messages_for,  *)
(* gpt_4o_mini_rag) as called from src/app.py.                             *)
(*                                                                         *)
(* A text (Python str) is a sequence of tokens; a token is a TLA+ string   *)
(* standing for a run of characters that the code never splits.  String    *)
(* concatenation is \o, "is a prefix of" is IsPrefix.                      *)
(*                                                                         *)
(* gpt_4o_mini_rag is a generator function: calling it only creates the    *)
(* generator; its body runs when the consumer asks for the next element.   *)
(* A generator g has a position pc[g] in that body.                        *)
(***************************************************************************)
EXTENDS Integers, Sequences, FiniteSets, TLC

(***************************************************************************)
(* Bounds of the model.                                                    *)
(***************************************************************************)
\* longest history (number of prior turns) a caller passes
MaxHistory == 2
\* most chunks the completion provider delivers on one stream
MaxChunks == 3
\* most records the vector index holds
MaxStore == 11
\* the same two bounds where two generators run at once
ConcMaxHistory == 1
ConcMaxChunks == 1

\* n_results passed to collection.query
N_RESULTS == 10
\* seed passed to openai.chat.completions.create
SEED == 42

(***************************************************************************)
(* Generic helpers on sequences.                                           *)
(***************************************************************************)
Min(a, b) == IF a <= b THEN a ELSE b

Abs(x) == IF x < 0 THEN 0 - x ELSE x

IsPrefix(s, t) == Len(s) <= Len(t) /\ SubSeq(t, 1, Len(s)) = s

Last(s) == s[Len(s)]

\* all sequences over S of length at most n
SeqsUpTo(S, n) == UNION {[1..k -> S] : k \in 0..n}

(***************************************************************************)
(* Inputs.                                                                 *)
(***************************************************************************)
\* the two generator objects the consumer side may hold
Gens == {1, 2}

Queries ==
    { <<"Who specializes in ", "machine learning", "?">>,
      <<"clinical trials">> }

\* a Turn is <<user_text, assistant_text>>
Turns == { << <<"Hi">>, <<"Hello!">> >>, << <<"Thanks">>, <<"Bye">> >> }

Histories == SeqsUpTo(Turns, MaxHistory)

\* chunk.choices[0].delta.content is None or a str
NoContent == [has_content |-> FALSE, content |-> <<>>]

Chunks ==
    { NoContent,
      [has_content |-> TRUE, content |-> <<"Dr. ">>],
      [has_content |-> TRUE, content |-> <<"Smith", " is">>] }

(***************************************************************************)
(* The vector index (chromadb collection) and the embedding provider.      *)
(* A stored record has a document, a metadata dict and the position of its *)
(* embedding; a metadata dict is a function whose domain is the set of     *)
(* keys it has.  The store keeps the records in its native order.          *)
(***************************************************************************)
FacultyNames == << <<"A">>, <<"B">>, <<"C">> >>

FacultyUrls == << <<"u1">>, <<"u2">>, <<"u3">> >>

FacultyDocs == << <<"bio of A">>, <<"bio of B">>, <<"bio of C">> >>

\* the i-th record of a well-formed directory: three faculty members, stored
\* repeatedly (duplicates), at embedding positions 2, 4, 1, 3, 0, 2, ...
GoodRecord(i) ==
    LET k == ((i - 1) % 3) + 1
    IN  [doc |-> FacultyDocs[k],
         meta |-> [name |-> FacultyNames[k], url |-> FacultyUrls[k]],
         pos |-> (2 * i) % 5]

\* the i-th record of a directory with incomplete metadata: every record
\* whose number is 2 mod 3 lacks `name`, every one that is 0 mod 3 lacks `url`
BadRecord(i) ==
    LET r == GoodRecord(i)
    IN  CASE i % 3 = 2 -> [r EXCEPT !.meta = [url |-> r.meta.url]]
          [] i % 3 = 0 -> [r EXCEPT !.meta = [name |-> r.meta.name]]
          [] OTHER -> r

Stores ==
    {[i \in 1..n |-> GoodRecord(i)] : n \in 0..MaxStore}
        \cup {[i \in 1..n |-> BadRecord(i)] : n \in 2..3}

\* vectorizer.embed_query: the position of the query's embedding
embed_query(description) == IF Len(description) > 1 THEN 0 ELSE 3

Distance(rec, vec) == Abs(rec.pos - vec)

\* the place of the store's i-th record in the ranking for vec: after every
\* nearer record and, among equally near ones, in the store's native order
RankOf(store, vec, i) ==
    1 + Cardinality({j \in 1..Len(store) :
                        \/ Distance(store[j], vec) < Distance(store[i], vec)
                        \/ /\ Distance(store[j], vec) = Distance(store[i], vec)
                           /\ j < i})

\* the store's record at place k of the ranking for vec
RankedAt(store, vec, k) ==
    store[CHOOSE i \in 1..Len(store) : RankOf(store, vec, i) = k]

\* collection.query(query_embeddings=vec, n_results=n): the n nearest
\* records, nearest first, as parallel lists, one inner list per query
collection_query(store, vec, n) ==
    [documents |->
        << [k \in 1..Min(n, Len(store)) |-> RankedAt(store, vec, k).doc] >>,
     metadatas |->
        << [k \in 1..Min(n, Len(store)) |-> RankedAt(store, vec, k).meta] >>,
     distances |->
        << [k \in 1..Min(n, Len(store)) |->
               Distance(RankedAt(store, vec, k), vec)] >>]

(***************************************************************************)
(* find_similars, after the index answered: the shaping of its result.     *)
(***************************************************************************)
\* documents = results['documents'][0][:]
documents_of(results) == results.documents[1]

\* name = [m['name'] for m in results['metadatas'][0][:]]
name_of(results) ==
    [i \in 1..Len(results.metadatas[1]) |-> results.metadatas[1][i].name]

\* a slip of the slice: the first link is dropped
link_of_from_second(results) ==
    [i \in 1..(Len(results.metadatas[1]) - 1) |->
        results.metadatas[1][i + 1].url]

\* link = [m['url'] for m in results['metadatas'][0][:]]
link_of(results) ==
    [i \in 1..Len(results.metadatas[1]) |-> results.metadatas[1][i].url]

\* m['name'] or m['url'] on a dict without that key raises KeyError
raises_KeyError(results) ==
    \E i \in 1..Len(results.metadatas[1]) :
        \/ "name" \notin DOMAIN results.metadatas[1][i]
        \/ "url" \notin DOMAIN results.metadatas[1][i]

\* return documents, name, link
find_similars(results) ==
    [documents |-> documents_of(results),
     names |-> name_of(results),
     links |-> link_of(results)]

(***************************************************************************)
(* make_context and messages_for.                                          *)
(***************************************************************************)
INTRO ==
    <<"To provide some context, here are some faculty members that might be relevant to your description.\n\n">>

\* one pass of the loop body: message += f"Potentially related faculty: ..."
context_block(similar, name, link) ==
    <<"Potentially related faculty:\n">> \o name
        \o <<"\n\n        website: ">> \o link
        \o <<"\n\n        ">> \o similar \o <<"\n\n">>

\* for similar, name, link in zip(documents, names, links), from item i on:
\* zip stops at the shortest of the three lists
\* items whose name already occurred are left out
RECURSIVE zip_blocks_without_repeats(_, _)
zip_blocks_without_repeats(similars, i) ==
    IF i > Min(Len(similars.documents),
               Min(Len(similars.names), Len(similars.links)))
    THEN <<>>
    ELSE (IF \E j \in 1..(i - 1) : similars.names[j] = similars.names[i]
          THEN <<>>
          ELSE context_block(similars.documents[i], similars.names[i],
                             similars.links[i]))
             \o zip_blocks_without_repeats(similars, i + 1)

RECURSIVE zip_blocks(_, _)
zip_blocks(similars, i) ==
    IF i > Min(Len(similars.documents),
               Min(Len(similars.names), Len(similars.links)))
    THEN <<>>
    ELSE context_block(similars.documents[i], similars.names[i],
                       similars.links[i])
             \o zip_blocks(similars, i + 1)

\* nothing at all when nothing was retrieved
make_context_blank_when_empty(similars) ==
    IF similars.documents = <<>> THEN <<>> ELSE INTRO \o zip_blocks(similars, 1)

make_context(similars) == INTRO \o zip_blocks(similars, 1)

\* the user prompt without the description
messages_for_without_description(description, similars) ==
    [role |-> "user",
     content |-> <<"Here is my description: ">> \o <<"\n\n">>
                     \o make_context(similars)]

messages_for(description, similars) ==
    [role |-> "user",
     content |-> <<"Here is my description: ">> \o description \o <<"\n\n">>
                     \o make_context(similars)]

(***************************************************************************)
(* gpt_4o_mini_rag: the pure parts.                                        *)
(***************************************************************************)
system_message ==
    [role |-> "system",
     content |-> <<"You are a academic advisor. You estimate the relevance of faculty members to a given description. Suggest relevant faculty members. Don't forget to include a link to the faculty member's profile. You should give explanation for your choice in markdown format.">>]

\* the two messages of a turn inserted at the front of the list
append_turn_at_front(formatted, turn) ==
    << [role |-> "user", content |-> turn[1]],
       [role |-> "assistant", content |-> turn[2]] >> \o formatted

\* one pass of the loop over history: two appends
append_turn(formatted, turn) ==
    formatted \o << [role |-> "user", content |-> turn[1]],
                    [role |-> "assistant", content |-> turn[2]] >>

\* for user_msg, assistant_msg in history: ..., on top of `formatted`
RECURSIVE format_history(_, _)
format_history(formatted, history) ==
    IF history = <<>> THEN formatted
    ELSE format_history(append_turn(formatted, history[1]), Tail(history))

\* the current message put before the history
combine_messages_current_first(formatted_history, current_message) ==
    <<system_message>> \o <<current_message>> \o formatted_history

\* messages = [system_message] + formatted_history + [current_message]
combine_messages(formatted_history, current_message) ==
    <<system_message>> \o formatted_history \o <<current_message>>

\* str(chunk.choices[0].delta.content): None becomes the text "None"
content_or_str_none(chunk) ==
    IF chunk.has_content THEN chunk.content ELSE <<"None">>

\* chunk.choices[0].delta.content or ''
content_or_empty(chunk) ==
    IF chunk.has_content /\ chunk.content # <<>> THEN chunk.content ELSE <<>>

\* response = chunk.choices[0].delta.content or '': the bare delta
accumulate_delta(response, chunk) == content_or_empty(chunk)

\* response += chunk.choices[0].delta.content or ''
accumulate(response, chunk) == response \o content_or_empty(chunk)

(***************************************************************************)
(* State.                                                                  *)
(***************************************************************************)
VARIABLES
    collection,         \* app.py: the chromadb collection every chat call gets
    pc,                 \* per generator: its position in gpt_4o_mini_rag
    description,        \* per generator: argument `description`
    history,            \* per generator: argument `history`
    formatted_history,  \* per generator: local `formatted_history`
    embedding,          \* per generator: <<v>> once embed_query returned v
    n_results,          \* per generator: n_results of its index query, 0 before
    results,            \* per generator: <<r>> once collection.query returned r
    similars,           \* per generator: <<s>> once find_similars returned s
    messages,           \* per generator: local `messages`
    request,            \* per generator: <<r>> once the completion was requested
    delivered,          \* per generator: the chunks the stream delivered so far
    response,           \* per generator: local `response`
    yielded,            \* per generator: the elements yielded to the consumer
    calls,              \* per generator: the external calls made, in order
    error               \* per generator: the exception raised to the consumer

\* the state of a directory scraper (src/src/scraper) and of the site it reads
VARIABLES
    directory,          \* the faculty directory site the scraper reads
    scraper_class,      \* the class of the scraper object, "none" before one is made
    debug,              \* self.debug
    spc,                \* the scraper's position in scrape_faculty_list
    soup,               \* self.soup: <<[page, ok]>> once a page was parsed
    current_url,        \* GSBS: local `current_url`, 0 for None
    page_num,           \* GSBS: local `page_num`
    faculty_divs,       \* local `faculty_divs`
    next_div,           \* the place in faculty_divs the for loop is at
    local_faculty_list, \* local `faculty_list`
    faculty_list,       \* self.faculty_list: <<>> while the attribute is unset
    returned,           \* <<v>> once scrape_faculty_list returned v
    fetched,            \* the directory pages requested, in order
    scrape_error,       \* the exception scrape_faculty_list raised
    output_file,        \* the file save_to_jsonl writes: <<>> while absent
    save_result         \* how the call of save_to_jsonl ended, "none" before

svars ==
    <<directory, scraper_class, debug, spc, soup, current_url, page_num,
      faculty_divs, next_div, local_faculty_list, faculty_list, returned,
      fetched, scrape_error, output_file, save_result>>

ragvars ==
    <<collection, pc, description, history, formatted_history, embedding,
      n_results, results, similars, messages, request, delivered, response,
      yielded, calls, error>>

vars == <<ragvars, svars>>

NoError == "none"

\* no chat call was made yet
GeneratorsIdle ==
    /\ pc = [g \in Gens |-> "none"]
    /\ description = [g \in Gens |-> <<>>]
    /\ history = [g \in Gens |-> <<>>]
    /\ formatted_history = [g \in Gens |-> <<>>]
    /\ embedding = [g \in Gens |-> <<>>]
    /\ n_results = [g \in Gens |-> 0]
    /\ results = [g \in Gens |-> <<>>]
    /\ similars = [g \in Gens |-> <<>>]
    /\ messages = [g \in Gens |-> <<>>]
    /\ request = [g \in Gens |-> <<>>]
    /\ delivered = [g \in Gens |-> <<>>]
    /\ response = [g \in Gens |-> <<>>]
    /\ yielded = [g \in Gens |-> <<>>]
    /\ calls = [g \in Gens |-> <<>>]
    /\ error = [g \in Gens |-> NoError]

\* no scraper object was made yet
NoScraper ==
    /\ scraper_class = "none"
    /\ debug = FALSE
    /\ spc = "idle"
    /\ soup = <<>>
    /\ current_url = 0
    /\ page_num = 0
    /\ faculty_divs = <<>>
    /\ next_div = 0
    /\ local_faculty_list = <<>>
    /\ faculty_list = <<>>
    /\ returned = <<>>
    /\ fetched = <<>>
    /\ scrape_error = NoError
    /\ save_result = "none"

\* the chat application: the index is loaded, the scrapers are not running
Init ==
    /\ collection \in Stores
    /\ GeneratorsIdle
    /\ directory = <<>>
    /\ output_file = <<>>
    /\ NoScraper

(***************************************************************************)
(* gpt_4o_mini_rag as a generator.                                         *)
(***************************************************************************)
\* formatted_history as a module-level list that every call appends to
leaked_formatted_history == formatted_history[1] \o formatted_history[2]

\* formatted_history = []
empty_formatted_history == <<>>

\* a plain function in place of the generator: the call itself embeds
CallEmbedsEagerly(g, Hs) ==
    /\ pc[g] = "none"
    /\ \E d \in Queries, h \in Hs :
        /\ description' = [description EXCEPT ![g] = d]
        /\ history' = [history EXCEPT ![g] = h]
    /\ calls' = [calls EXCEPT ![g] = Append(@, "embed")]
    /\ pc' = [pc EXCEPT ![g] = "created"]
    /\ UNCHANGED <<svars, collection, formatted_history, embedding, n_results,
                   results, similars, messages, request, delivered, response,
                   yielded, error>>

\* chat(description, history): the call only creates the generator object
Call(g, Hs) ==
    /\ pc[g] = "none"
    /\ \E d \in Queries, h \in Hs :
        /\ description' = [description EXCEPT ![g] = d]
        /\ history' = [history EXCEPT ![g] = h]
    /\ pc' = [pc EXCEPT ![g] = "created"]
    /\ UNCHANGED <<svars, collection, formatted_history, embedding, n_results,
                   results, similars, messages, request, delivered, response,
                   yielded, calls, error>>

\* the turns popped off the caller's list while they are formatted
FirstNextDrainsHistory(g) ==
    /\ pc[g] = "created"
    /\ formatted_history' =
          [formatted_history EXCEPT
              ![g] = format_history(empty_formatted_history, history[g])]
    /\ history' = [history EXCEPT ![g] = <<>>]
    /\ pc' = [pc EXCEPT ![g] = "embed"]
    /\ UNCHANGED <<svars, collection, description, embedding, n_results,
                   results, similars, messages, request, delivered, response,
                   yielded, calls, error>>

\* the consumer asks for the first element: the body starts and runs up to
\* the call of find_similars
FirstNext(g) ==
    /\ pc[g] = "created"
    /\ formatted_history' =
          [formatted_history EXCEPT
              ![g] = format_history(empty_formatted_history, history[g])]
    /\ pc' = [pc EXCEPT ![g] = "embed"]
    /\ UNCHANGED <<svars, collection, description, history, embedding, n_results,
                   results, similars, messages, request, delivered, response,
                   yielded, calls, error>>

\* the consumer asks for a further element: the body resumes after the yield
ResumeNext(g) ==
    /\ pc[g] = "suspended"
    /\ pc' = [pc EXCEPT ![g] = "pull"]
    /\ UNCHANGED <<svars, collection, description, history, formatted_history,
                   embedding, n_results, results, similars, messages, request,
                   delivered, response, yielded, calls, error>>

\* an exception leaves the generator and reaches the consumer
Raise(g, e) ==
    /\ pc' = [pc EXCEPT ![g] = "failed"]
    /\ error' = [error EXCEPT ![g] = e]

\* vectorizer.embed_query(description) returns
EmbedOk(g) ==
    /\ pc[g] = "embed"
    /\ calls' = [calls EXCEPT ![g] = Append(@, "embed")]
    /\ embedding' = [embedding EXCEPT ![g] = <<embed_query(description[g])>>]
    /\ pc' = [pc EXCEPT ![g] = "query"]
    /\ UNCHANGED <<svars, collection, description, history, formatted_history,
                   n_results, results, similars, messages, request, delivered,
                   response, yielded, error>>

\* the embedding call tried again after it raised
EmbedFailRetry(g) ==
    /\ pc[g] = "embed"
    /\ Len(calls[g]) < 3
    /\ calls' = [calls EXCEPT ![g] = Append(@, "embed")]
    /\ UNCHANGED <<svars, collection, pc, description, history, formatted_history,
                   embedding, n_results, results, similars, messages, request,
                   delivered, response, yielded, error>>

\* vectorizer.embed_query(description) raises
EmbedFail(g) ==
    /\ pc[g] = "embed"
    /\ calls' = [calls EXCEPT ![g] = Append(@, "embed")]
    /\ Raise(g, "EmbeddingError")
    /\ UNCHANGED <<svars, collection, description, history, formatted_history,
                   embedding, n_results, results, similars, messages, request,
                   delivered, response, yielded>>

\* one neighbour more than the code asks for
query_arguments_one_more(g) ==
    [query_embeddings |-> embedding[g][1], n_results |-> N_RESULTS + 1]

\* the arguments of collection.query
query_arguments(g) ==
    [query_embeddings |-> embedding[g][1], n_results |-> N_RESULTS]

\* what collection.query returns to this generator
query_result(g) ==
    collection_query(collection, query_arguments(g).query_embeddings,
                     query_arguments(g).n_results)

\* collection.query returns `res`, find_similars shapes it into `sim`, and
\* the body goes on to build current_message and messages
QueryOk(g) ==
    /\ pc[g] = "query"
    /\ \E res \in {query_result(g)} :
        /\ ~raises_KeyError(res)
        /\ results' = [results EXCEPT ![g] = <<res>>]
        /\ \E sim \in {find_similars(res)} :
            /\ similars' = [similars EXCEPT ![g] = <<sim>>]
            /\ messages' =
                  [messages EXCEPT
                      ![g] = combine_messages(
                                 formatted_history[g],
                                 messages_for(description[g], sim))]
    /\ calls' = [calls EXCEPT ![g] = Append(@, "query")]
    /\ n_results' = [n_results EXCEPT ![g] = query_arguments(g).n_results]
    /\ pc' = [pc EXCEPT ![g] = "complete"]
    /\ UNCHANGED <<svars, collection, description, history, formatted_history,
                   embedding, request, delivered, response, yielded, error>>

\* collection.query returns a record without `name` or `url`: the list
\* comprehension of find_similars raises KeyError
QueryKeyError(g) ==
    /\ pc[g] = "query"
    /\ \E res \in {query_result(g)} :
        /\ raises_KeyError(res)
        /\ results' = [results EXCEPT ![g] = <<res>>]
    /\ calls' = [calls EXCEPT ![g] = Append(@, "query")]
    /\ n_results' = [n_results EXCEPT ![g] = query_arguments(g).n_results]
    /\ Raise(g, "KeyError")
    /\ UNCHANGED <<svars, collection, description, history, formatted_history,
                   embedding, similars, messages, request, delivered, response,
                   yielded>>

\* the failure of the index swallowed: find_similars returns empty lists
QueryFailEmptyResult(g) ==
    /\ pc[g] = "query"
    /\ calls' = [calls EXCEPT ![g] = Append(@, "query")]
    /\ n_results' = [n_results EXCEPT ![g] = query_arguments(g).n_results]
    /\ \E sim \in {[documents |-> <<>>, names |-> <<>>, links |-> <<>>]} :
        /\ similars' = [similars EXCEPT ![g] = <<sim>>]
        /\ messages' =
              [messages EXCEPT
                  ![g] = combine_messages(formatted_history[g],
                                          messages_for(description[g], sim))]
    /\ pc' = [pc EXCEPT ![g] = "complete"]
    /\ UNCHANGED <<svars, collection, description, history, formatted_history,
                   embedding, results, request, delivered, response, yielded,
                   error>>

\* collection.query raises
QueryFail(g) ==
    /\ pc[g] = "query"
    /\ calls' = [calls EXCEPT ![g] = Append(@, "query")]
    /\ n_results' = [n_results EXCEPT ![g] = query_arguments(g).n_results]
    /\ Raise(g, "IndexQueryError")
    /\ UNCHANGED <<svars, collection, description, history, formatted_history,
                   embedding, results, similars, messages, request, delivered,
                   response, yielded>>

\* a seed that differs from call to call
completion_request_seed_per_call(g) ==
    [model |-> "gpt-4o-mini", messages |-> messages[g], seed |-> SEED + g,
     stream |-> TRUE]

\* the arguments of openai.chat.completions.create
completion_request(g) ==
    [model |-> "gpt-4o-mini", messages |-> messages[g], seed |-> SEED,
     stream |-> TRUE]

\* openai.chat.completions.create returns the stream; response = ""
CreateOk(g) ==
    /\ pc[g] = "complete"
    /\ calls' = [calls EXCEPT ![g] = Append(@, "complete")]
    /\ request' = [request EXCEPT ![g] = <<completion_request(g)>>]
    /\ response' = [response EXCEPT ![g] = <<>>]
    /\ pc' = [pc EXCEPT ![g] = "pull"]
    /\ UNCHANGED <<svars, collection, description, history, formatted_history,
                   embedding, n_results, results, similars, messages,
                   delivered, yielded, error>>

\* the completion requested again after it raised
CreateFailRetry(g) ==
    /\ pc[g] = "complete"
    /\ Len(calls[g]) < 5
    /\ calls' = [calls EXCEPT ![g] = Append(@, "complete")]
    /\ request' = [request EXCEPT ![g] = <<completion_request(g)>>]
    /\ UNCHANGED <<svars, collection, pc, description, history, formatted_history,
                   embedding, n_results, results, similars, messages,
                   delivered, response, yielded, error>>

\* an empty response yielded before the failure is raised
CreateFailYieldsEmpty(g) ==
    /\ pc[g] = "complete"
    /\ calls' = [calls EXCEPT ![g] = Append(@, "complete")]
    /\ request' = [request EXCEPT ![g] = <<completion_request(g)>>]
    /\ yielded' = [yielded EXCEPT ![g] = Append(@, <<>>)]
    /\ pc' = [pc EXCEPT ![g] = "failed"]
    /\ error' = [error EXCEPT ![g] = "CompletionError"]
    /\ UNCHANGED <<svars, collection, description, history, formatted_history,
                   embedding, n_results, results, similars, messages,
                   delivered, response>>

\* openai.chat.completions.create raises
CreateFail(g) ==
    /\ pc[g] = "complete"
    /\ calls' = [calls EXCEPT ![g] = Append(@, "complete")]
    /\ request' = [request EXCEPT ![g] = <<completion_request(g)>>]
    /\ Raise(g, "CompletionError")
    /\ UNCHANGED <<svars, collection, description, history, formatted_history,
                   embedding, n_results, results, similars, messages,
                   delivered, response, yielded>>

\* the yield put before the accumulation: the element lags one chunk behind
ChunkArrivesYieldFirst(g, max) ==
    /\ pc[g] = "pull"
    /\ Len(delivered[g]) < max
    /\ \E chunk \in Chunks :
        /\ delivered' = [delivered EXCEPT ![g] = Append(@, chunk)]
        /\ response' = [response EXCEPT ![g] = accumulate(@, chunk)]
        /\ yielded' = [yielded EXCEPT ![g] = Append(@, response[g])]
    /\ pc' = [pc EXCEPT ![g] = "suspended"]
    /\ UNCHANGED <<svars, collection, description, history, formatted_history,
                   embedding, n_results, results, similars, messages, request,
                   calls, error>>

\* `response` as a module-level variable that every generator appends to
ChunkArrivesSharedResponse(g, max) ==
    /\ pc[g] = "pull"
    /\ Len(delivered[g]) < max
    /\ \E chunk \in Chunks :
        /\ delivered' = [delivered EXCEPT ![g] = Append(@, chunk)]
        /\ response' = [h \in Gens |-> accumulate(response[g], chunk)]
        /\ yielded' =
              [yielded EXCEPT ![g] = Append(@, accumulate(response[g], chunk))]
    /\ pc' = [pc EXCEPT ![g] = "suspended"]
    /\ UNCHANGED <<svars, collection, description, history, formatted_history,
                   embedding, n_results, results, similars, messages, request,
                   calls, error>>

\* for chunk in stream: the stream delivers a chunk, the body accumulates it
\* and yields the accumulated response
ChunkArrives(g, max) ==
    /\ pc[g] = "pull"
    /\ Len(delivered[g]) < max
    /\ \E chunk \in Chunks :
        /\ delivered' = [delivered EXCEPT ![g] = Append(@, chunk)]
        /\ response' = [response EXCEPT ![g] = accumulate(@, chunk)]
        /\ yielded' =
              [yielded EXCEPT ![g] = Append(@, accumulate(response[g], chunk))]
    /\ pc' = [pc EXCEPT ![g] = "suspended"]
    /\ UNCHANGED <<svars, collection, description, history, formatted_history,
                   embedding, n_results, results, similars, messages, request,
                   calls, error>>

\* for chunk in stream: the stream ends, the body returns (StopIteration)
StreamEnd(g) ==
    /\ pc[g] = "pull"
    /\ pc' = [pc EXCEPT ![g] = "done"]
    /\ UNCHANGED <<svars, collection, description, history, formatted_history,
                   embedding, n_results, results, similars, messages, request,
                   delivered, response, yielded, calls, error>>

\* the failure of the stream reported as one more element before it is raised
StreamFailYieldsNotice(g) ==
    /\ pc[g] = "pull"
    /\ yielded' =
          [yielded EXCEPT ![g] = Append(@, response[g] \o <<"[error]">>)]
    /\ Raise(g, "CompletionError")
    /\ UNCHANGED <<svars, collection, description, history, formatted_history,
                   embedding, n_results, results, similars, messages, request,
                   delivered, response, calls>>

\* for chunk in stream: the stream raises
StreamFail(g) ==
    /\ pc[g] = "pull"
    /\ Raise(g, "CompletionError")
    /\ UNCHANGED <<svars, collection, description, history, formatted_history,
                   embedding, n_results, results, similars, messages, request,
                   delivered, response, yielded, calls>>

\* closing reads one more chunk off the stream before the generator stops
CloseReadsAhead(g) ==
    /\ pc[g] \in {"created", "suspended"}
    /\ pc' = [pc EXCEPT ![g] = "closed"]
    /\ delivered' =
          [delivered EXCEPT
              ![g] = IF pc[g] = "suspended" THEN Append(@, NoContent) ELSE @]
    /\ UNCHANGED <<svars, collection, description, history, formatted_history,
                   embedding, n_results, results, similars, messages, request,
                   response, yielded, calls, error>>

\* the consumer closes (or drops) a generator that is not running
Close(g) ==
    /\ pc[g] \in {"created", "suspended"}
    /\ pc' = [pc EXCEPT ![g] = "closed"]
    /\ UNCHANGED <<svars, collection, description, history, formatted_history,
                   embedding, n_results, results, similars, messages, request,
                   delivered, response, yielded, calls, error>>

\* the consumer drops a generator that has ended; the next chat message
\* makes a new one
Forget(g) ==
    /\ pc[g] \in {"done", "failed", "closed"}
    /\ pc' = [pc EXCEPT ![g] = "none"]
    /\ description' = [description EXCEPT ![g] = <<>>]
    /\ history' = [history EXCEPT ![g] = <<>>]
    /\ formatted_history' = [formatted_history EXCEPT ![g] = <<>>]
    /\ embedding' = [embedding EXCEPT ![g] = <<>>]
    /\ n_results' = [n_results EXCEPT ![g] = 0]
    /\ results' = [results EXCEPT ![g] = <<>>]
    /\ similars' = [similars EXCEPT ![g] = <<>>]
    /\ messages' = [messages EXCEPT ![g] = <<>>]
    /\ request' = [request EXCEPT ![g] = <<>>]
    /\ delivered' = [delivered EXCEPT ![g] = <<>>]
    /\ response' = [response EXCEPT ![g] = <<>>]
    /\ yielded' = [yielded EXCEPT ![g] = <<>>]
    /\ calls' = [calls EXCEPT ![g] = <<>>]
    /\ error' = [error EXCEPT ![g] = NoError]
    /\ UNCHANGED <<svars, collection>>

(***************************************************************************)
(* The directory scrapers: FacultyScraper (src/src/scraper) and its        *)
(* subclasses.  SPHFacultyScraper inherits scrape_faculty_list, the GSBS   *)
(* and SBMI scrapers override it.  A directory is a site of pages; a page   *)
(* lists faculty entries ("divs") and may link to a next page.  A URL of   *)
(* the directory is the number of the page it addresses (0: None); the     *)
(* scraper's base_url is page 1.                                           *)
(***************************************************************************)
\* most pages a directory has
MaxPages == 2
\* most entries a directory page lists
MaxDivs == 6
\* most page requests of one scraper that are followed (a directory whose
\* next-page links form a cycle is requested without end)
MaxFetches == 4

\* faculty_divs[:5]
DEBUG_LIMIT == 5

ScraperClasses ==
    {"SPHFacultyScraper", "GSBSFacultyScraper", "SBMIFacultyScraper"}

\* the k-th entry of page p: in a plain directory every entry has a name and
\* a profile link; otherwise every entry whose place is 3 mod 4 has no name
\* and every one that is 2 mod 4 has no link
Div(p, k, plain) ==
    [page |-> p,
     place |-> k,
     has_name |-> plain \/ k % 4 # 3,
     has_link |-> plain \/ k % 4 # 2]

\* directories of up to MaxPages pages with n entries each; the next-page
\* link of a page is any page of the directory, itself included, or none
Directories ==
    UNION {{[divs |-> [p \in 1..P |-> [k \in 1..n |-> Div(p, k, plain)]],
             next |-> nx] :
               n \in 0..MaxDivs, plain \in BOOLEAN, nx \in [1..P -> 0..P]} :
           P \in 1..MaxPages}

\* self._get_faculty_divs(): the entries of the parsed page; the body of a
\* failed response lists none
get_faculty_divs(sp) == IF sp.ok THEN directory.divs[sp.page] ELSE <<>>

\* self._get_next_page_url(): the next-page link of the parsed page
get_next_page_url(sp) == IF sp.ok THEN directory.next[sp.page] ELSE 0

\* the slice widened by one
debug_slice_one_more(divs) == SubSeq(divs, 1, Min(DEBUG_LIMIT + 1, Len(divs)))

\* faculty_divs[:5]
debug_slice(divs) == SubSeq(divs, 1, Min(DEBUG_LIMIT, Len(divs)))

\* the value of a call that falls off the end of the function, and of one
\* that executes `return v`
ReturnsNone == [is_none |-> TRUE, value |-> <<>>]

Returns(v) == [is_none |-> FALSE, value |-> v]

\* the dict built for one entry: which entry it is, whether it has the key
\* 'name', and what its key 'profile' holds ("none": no such key, "page": the
\* scraped profile, "error": the string _get_faculty_profile returns when the
\* profile could not be fetched)
faculty_info(div, profile) ==
    [page |-> div.page,
     place |-> div.place,
     name |-> scraper_class = "SPHFacultyScraper" \/ div.has_name,
     profile |-> profile]

\* FacultyScraper.__init__: stores its arguments, requests base_url and
\* parses the response whatever its status; faculty_list is not set
Construct(cls, dbg, ok) ==
    /\ spc = "idle"
    /\ scraper_class' = cls
    /\ debug' = dbg
    /\ fetched' = Append(fetched, 1)
    /\ soup' = <<[page |-> 1, ok |-> ok]>>
    /\ spc' = "constructed"
    /\ UNCHANGED <<ragvars, output_file, save_result, directory, current_url, page_num, faculty_divs,
                   next_div, local_faculty_list, faculty_list, returned,
                   scrape_error>>

\* FacultyScraper.__init__: requests.get raises, no scraper object is made
ConstructFail ==
    /\ spc = "idle"
    /\ fetched' = Append(fetched, 1)
    /\ spc' = "raised"
    /\ scrape_error' = "RequestException"
    /\ UNCHANGED <<ragvars, output_file, save_result, directory, scraper_class, debug, soup, current_url,
                   page_num, faculty_divs, next_div, local_faculty_list,
                   faculty_list, returned>>

\* does the scraper keep only the first entries of the page it just parsed?
\* SPH and SBMI: `if self.debug`; GSBS: `if self.debug and page_num == 1`
slices_page ==
    IF scraper_class = "GSBSFacultyScraper"
    THEN debug /\ page_num = 1
    ELSE debug

\* the page scrape_faculty_list requests: current_url (GSBS), base_url (SBMI)
url_to_fetch ==
    IF scraper_class = "GSBSFacultyScraper" THEN current_url ELSE 1

\* scrape_faculty_list is called: faculty_list = []; the inherited method
\* takes the entries of the page the constructor parsed, the GSBS and SBMI
\* methods go on to request the directory themselves
ScrapeStart ==
    /\ spc = "constructed"
    /\ local_faculty_list' = <<>>
    /\ IF scraper_class = "SPHFacultyScraper"
       THEN /\ faculty_divs' =
                  (IF debug THEN debug_slice(get_faculty_divs(soup[1]))
                   ELSE get_faculty_divs(soup[1]))
            /\ next_div' = 1
            /\ spc' = "divs"
            /\ UNCHANGED <<current_url, page_num>>
       ELSE /\ current_url' =
                  (IF scraper_class = "GSBSFacultyScraper" THEN 1 ELSE 0)
            /\ page_num' =
                  (IF scraper_class = "GSBSFacultyScraper" THEN 1 ELSE 0)
            /\ spc' = "fetch"
            /\ UNCHANGED <<faculty_divs, next_div>>
    /\ UNCHANGED <<ragvars, output_file, save_result, directory, scraper_class, debug, soup,
                   faculty_list, returned, fetched, scrape_error>>

\* the method ends by falling off its end (SPH, GSBS): self.faculty_list is
\* set and None is the value of the call
StoreAndFallOff ==
    /\ faculty_list' = <<local_faculty_list>>
    /\ returned' = <<ReturnsNone>>
    /\ spc' = "returned"

\* self.faculty_list = faculty_list; return faculty_list (SBMI)
StoreAndReturn ==
    /\ faculty_list' = <<local_faculty_list>>
    /\ returned' = <<Returns(local_faculty_list)>>
    /\ spc' = "returned"

\* an exception leaves scrape_faculty_list
ScrapeRaises(e) ==
    /\ spc' = "raised"
    /\ scrape_error' = e

\* requests.get answers with status 200: the page is parsed and its entries
\* are taken, only the first ones in debug mode
FetchPageOk ==
    /\ spc = "fetch"
    /\ Len(fetched) < MaxFetches
    /\ fetched' = Append(fetched, url_to_fetch)
    /\ soup' = <<[page |-> url_to_fetch, ok |-> TRUE]>>
    /\ faculty_divs' =
          (IF slices_page
           THEN debug_slice(directory.divs[url_to_fetch])
           ELSE directory.divs[url_to_fetch])
    /\ next_div' = 1
    /\ spc' = "divs"
    /\ UNCHANGED <<ragvars, output_file, save_result, directory, scraper_class, debug, current_url,
                   page_num, local_faculty_list, faculty_list, returned,
                   scrape_error>>

\* requests.get answers with another status: GSBS leaves the loop and stores
\* what it has; SBMI returns the empty list without storing it
FetchPageBad ==
    /\ spc = "fetch"
    /\ fetched' = Append(fetched, url_to_fetch)
    /\ IF scraper_class = "GSBSFacultyScraper"
       THEN StoreAndFallOff
       ELSE /\ returned' = <<Returns(local_faculty_list)>>
            /\ spc' = "returned"
            /\ UNCHANGED faculty_list
    /\ UNCHANGED <<ragvars, output_file, save_result, directory, scraper_class, debug, soup, current_url,
                   page_num, faculty_divs, next_div, local_faculty_list,
                   scrape_error>>

\* requests.get raises
FetchPageRaises ==
    /\ spc = "fetch"
    /\ fetched' = Append(fetched, url_to_fetch)
    /\ ScrapeRaises("RequestException")
    /\ UNCHANGED <<ragvars, output_file, save_result, directory, scraper_class, debug, soup, current_url,
                   page_num, faculty_divs, next_div, local_faculty_list,
                   faculty_list, returned>>

\* the loop body appends the dict; SBMI only when it has a name
append_info(info) ==
    IF scraper_class = "SBMIFacultyScraper" /\ ~info.name
    THEN local_faculty_list
    ELSE Append(local_faculty_list, info)

\* one pass of the for loop over an entry whose profile page, if it links to
\* one, is fetched; SPH's _extract_profile_url indexes the missing link of an
\* entry without one (None['href']) and raises TypeError
ProcessDiv ==
    /\ spc = "divs"
    /\ next_div <= Len(faculty_divs)
    /\ IF scraper_class = "SPHFacultyScraper" /\ ~faculty_divs[next_div].has_link
       THEN /\ ScrapeRaises("TypeError")
            /\ UNCHANGED <<local_faculty_list, next_div>>
       ELSE /\ local_faculty_list' =
                  append_info(
                      faculty_info(faculty_divs[next_div],
                                   IF faculty_divs[next_div].has_link
                                   THEN "page" ELSE "none"))
            /\ next_div' = next_div + 1
            /\ UNCHANGED <<spc, scrape_error>>
    /\ UNCHANGED <<ragvars, output_file, save_result, directory, scraper_class, debug, soup, current_url,
                   page_num, faculty_divs, faculty_list, returned, fetched>>

\* one pass of the for loop over an entry whose profile page cannot be
\* fetched: _get_faculty_profile returns a str; SPH and GSBS read its
\* attribute .text and raise AttributeError, SBMI stores the str
ProcessDivProfileFails ==
    /\ spc = "divs"
    /\ next_div <= Len(faculty_divs)
    /\ faculty_divs[next_div].has_link
    /\ IF scraper_class = "SBMIFacultyScraper"
       THEN /\ local_faculty_list' =
                  append_info(faculty_info(faculty_divs[next_div], "error"))
            /\ next_div' = next_div + 1
            /\ UNCHANGED <<spc, scrape_error>>
       ELSE /\ ScrapeRaises("AttributeError")
            /\ UNCHANGED <<local_faculty_list, next_div>>
    /\ UNCHANGED <<ragvars, output_file, save_result, directory, scraper_class, debug, soup, current_url,
                   page_num, faculty_divs, faculty_list, returned, fetched>>

\* GSBS, after the entries of a page: is there a next page to go to?
\* `if self.debug: break` comes first; then
\* `if next_url and next_url != current_url`
follows_next_page ==
    /\ scraper_class = "GSBSFacultyScraper"
    /\ ~debug
    /\ get_next_page_url(soup[1]) # 0
    /\ get_next_page_url(soup[1]) # current_url

\* GSBS: current_url = next_url; page_num += 1
NextPage ==
    /\ spc = "divs"
    /\ next_div > Len(faculty_divs)
    /\ follows_next_page
    /\ current_url' = get_next_page_url(soup[1])
    /\ page_num' = page_num + 1
    /\ spc' = "fetch"
    /\ UNCHANGED <<ragvars, output_file, save_result, directory, scraper_class, debug, soup,
                   faculty_divs, next_div, local_faculty_list, faculty_list,
                   returned, fetched, scrape_error>>

\* the loops are over: the list is stored; only SBMI returns it
EndOfPages ==
    /\ spc = "divs"
    /\ next_div > Len(faculty_divs)
    /\ ~follows_next_page
    /\ current_url' =
          (IF scraper_class = "GSBSFacultyScraper" /\ ~debug
           THEN 0 ELSE current_url)
    /\ IF scraper_class = "SBMIFacultyScraper"
       THEN StoreAndReturn
       ELSE StoreAndFallOff
    /\ UNCHANGED <<ragvars, output_file, save_result, directory, scraper_class, debug, soup, page_num,
                   faculty_divs, next_div, local_faculty_list, fetched,
                   scrape_error>>

\* a line an earlier run left in the output file
OldLine == [page |-> 0, place |-> 0, name |-> TRUE, profile |-> "page"]

\* the output file before the scraper runs: absent, or left by an earlier run
OutputFiles == {<<>>, << <<OldLine>> >>}

\* the caller calls save_to_jsonl once, on an object whose scrape is not
\* running: right after construction or after scrape_faculty_list returned
CanSave ==
    /\ spc \in {"constructed", "returned"}
    /\ save_result = "none"

\* `if not self.faculty_list` on an object that has no such attribute:
\* __init__ does not set it, and only a scrape that reaches its last
\* statement does
SaveWithoutList ==
    /\ CanSave
    /\ faculty_list = <<>>
    /\ save_result' = "AttributeError"
    /\ UNCHANGED <<ragvars, directory, scraper_class, debug, spc, soup,
                   current_url, page_num, faculty_divs, next_div,
                   local_faculty_list, faculty_list, returned, fetched,
                   scrape_error, output_file>>

\* `if not self.faculty_list` on an empty list: the message is printed and
\* the call returns
SaveNothing ==
    /\ CanSave
    /\ faculty_list = << <<>> >>
    /\ save_result' = "nothing to save"
    /\ UNCHANGED <<ragvars, directory, scraper_class, debug, spc, soup,
                   current_url, page_num, faculty_divs, next_div,
                   local_faculty_list, faculty_list, returned, fetched,
                   scrape_error, output_file>>

\* can json.dumps write this dict?  SBMI stores the FacultyProfileScraper
\* object itself under 'profile', the other scrapers its text
serialisable(info) ==
    ~(scraper_class = "SBMIFacultyScraper" /\ info.profile = "page")

\* the number of dicts written before json.dumps raises, all of them if none
written_before_error(list) ==
    IF \A i \in 1..Len(list) : serialisable(list[i])
    THEN Len(list)
    ELSE (CHOOSE i \in 1..Len(list) :
             /\ ~serialisable(list[i])
             /\ \A j \in 1..(i - 1) : serialisable(list[j])) - 1

\* there is data: an existing file is removed, a new one is opened and the
\* dicts are written one per line, up to the first that json.dumps rejects
SaveWrites ==
    /\ CanSave
    /\ faculty_list # <<>>
    /\ faculty_list[1] # <<>>
    /\ output_file' =
          << SubSeq(faculty_list[1], 1, written_before_error(faculty_list[1])) >>
    /\ save_result' =
          (IF written_before_error(faculty_list[1]) = Len(faculty_list[1])
           THEN "saved" ELSE "TypeError")
    /\ UNCHANGED <<ragvars, directory, scraper_class, debug, spc, soup,
                   current_url, page_num, faculty_divs, next_div,
                   local_faculty_list, faculty_list, returned, fetched,
                   scrape_error>>

(***************************************************************************)
(* Specifications.                                                         *)
(***************************************************************************)
\* one turn, with the full range of inputs
Next ==
    \/ Call(1, Histories)
    \/ FirstNext(1)
    \/ ResumeNext(1)
    \/ EmbedOk(1)
    \/ EmbedFail(1)
    \/ QueryOk(1)
    \/ QueryKeyError(1)
    \/ QueryFail(1)
    \/ CreateOk(1)
    \/ CreateFail(1)
    \/ ChunkArrives(1, MaxChunks)
    \/ StreamEnd(1)
    \/ StreamFail(1)
    \/ Close(1)
    \/ Forget(1)

Spec == Init /\ [][Next]_vars

\* one turn whose consumer keeps iterating and whose providers answer every
\* call: a generator that can take a step eventually takes one
Progress(g) ==
    \/ FirstNext(g)
    \/ ResumeNext(g)
    \/ EmbedOk(g)
    \/ EmbedFail(g)
    \/ QueryOk(g)
    \/ QueryKeyError(g)
    \/ QueryFail(g)
    \/ CreateOk(g)
    \/ CreateFail(g)
    \/ ChunkArrives(g, MaxChunks)
    \/ StreamEnd(g)
    \/ StreamFail(g)

\* a single turn: the generator is not replaced by a new one when it ends
TurnNext == Call(1, Histories) \/ Progress(1) \/ Close(1)

FairSpec == Init /\ [][TurnNext]_vars /\ WF_vars(Progress(1))

\* two generators alive at once, their steps interleaved in any order, with
\* a smaller range of inputs
ConcStores == {s \in Stores : Len(s) = 3}

ConcInit == Init /\ collection \in ConcStores

\* the prior turns of the concurrent callers
ConcTurns == { << <<"Hi">>, <<"Hello!">> >> }

ConcHistories == SeqsUpTo(ConcTurns, ConcMaxHistory)

ConcNext ==
    \E g \in Gens :
        \/ Call(g, ConcHistories)
        \/ FirstNext(g)
        \/ ResumeNext(g)
        \/ EmbedOk(g)
        \/ EmbedFail(g)
        \/ QueryOk(g)
        \/ QueryKeyError(g)
        \/ QueryFail(g)
        \/ CreateOk(g)
        \/ CreateFail(g)
        \/ ChunkArrives(g, ConcMaxChunks)
        \/ StreamEnd(g)
        \/ StreamFail(g)
        \/ Close(g)
        \/ Forget(g)

ConcSpec == ConcInit /\ [][ConcNext]_vars

\* one scraper object made and its scrape_faculty_list called once, on any
\* directory; the chat application is not running
ScrapeInit ==
    /\ collection = <<>>
    /\ GeneratorsIdle
    /\ directory \in Directories
    /\ output_file \in OutputFiles
    /\ NoScraper

ScrapeNext ==
    \/ \E cls \in ScraperClasses, dbg \in BOOLEAN, ok \in BOOLEAN :
          Construct(cls, dbg, ok)
    \/ ConstructFail
    \/ ScrapeStart
    \/ FetchPageOk
    \/ FetchPageBad
    \/ FetchPageRaises
    \/ ProcessDiv
    \/ ProcessDivProfileFails
    \/ NextPage
    \/ EndOfPages
    \/ SaveWithoutList
    \/ SaveNothing
    \/ SaveWrites

ScrapeSpec == ScrapeInit /\ [][ScrapeNext]_vars

(***************************************************************************)
(* Properties.                                                             *)
(***************************************************************************)
\* the text a chunk carries: nothing when its content is None
ChunkText(chunk) == IF chunk.has_content THEN chunk.content ELSE <<>>

\* the concatenation of the text of a sequence of chunks
RECURSIVE ChunksText(_)
ChunksText(chunks) ==
    IF chunks = <<>> THEN <<>>
    ELSE ChunkText(chunks[1]) \o ChunksText(Tail(chunks))

Terminal == {"done", "failed", "closed"}

\* C1: every element yielded to the caller is a prefix of the element yielded
\* next, and is no longer than it: the observed response never retracts.
C1_StreamingMonotone ==
    \A g \in Gens :
        \A i \in 1..(Len(yielded[g]) - 1) :
            /\ IsPrefix(yielded[g][i], yielded[g][i + 1])
            /\ Len(yielded[g][i]) <= Len(yielded[g][i + 1])

\* three elements were yielded, each strictly longer than the one before
C1_Witness ==
    /\ Len(yielded[1]) = 3
    /\ Len(yielded[1][1]) < Len(yielded[1][2])
    /\ Len(yielded[1][2]) < Len(yielded[1][3])

\* C2: the i-th element yielded is the concatenation of the text of the first
\* i chunks delivered (a chunk without text adds nothing), one element per
\* chunk.
C2_CumulativeElements ==
    \A g \in Gens :
        /\ Len(yielded[g]) = Len(delivered[g])
        /\ \A i \in 1..Len(yielded[g]) :
              yielded[g][i] = ChunksText(SubSeq(delivered[g], 1, i))

\* a text chunk, a chunk without text and another text chunk were delivered,
\* and three elements yielded
C2_Witness ==
    /\ Len(delivered[1]) = 3
    /\ delivered[1][1].has_content
    /\ ~delivered[1][2].has_content
    /\ delivered[1][3].has_content
    /\ Len(yielded[1]) = 3
    /\ yielded[1][2] = yielded[1][1]
    /\ yielded[1][3] # yielded[1][2]

\* C3: when the consumer keeps iterating and the provider answers, a stream
\* that is being read eventually ends (normally, unless the provider fails or
\* the consumer closes it), and after a normal end the last element yielded
\* is the concatenation of all the chunks delivered.
C3_StreamTerminates ==
    /\ [](pc[1] = "done" /\ delivered[1] # <<>>
              => /\ yielded[1] # <<>>
                 /\ Last(yielded[1]) = ChunksText(delivered[1]))
    /\ (pc[1] = "pull") ~> (pc[1] \in Terminal)

\* a stream of several chunks ended normally with a non-empty answer
C3_Witness ==
    /\ pc[1] = "done"
    /\ Len(delivered[1]) >= 2
    /\ ChunksText(delivered[1]) # <<>>
    /\ Last(yielded[1]) = ChunksText(delivered[1])

\* the roles of a message sequence for a history of n turns: system, then n
\* times (user, assistant), then user
RolesFor(msgs, n) ==
    /\ Len(msgs) = 2 * n + 2
    /\ msgs[1].role = "system"
    /\ \A i \in 1..n :
          /\ msgs[2 * i].role = "user"
          /\ msgs[2 * i + 1].role = "assistant"
    /\ msgs[2 * n + 2].role = "user"

\* C4: the messages submitted to the completion provider for a history of n
\* turns are 2n+2 messages with roles system, n times (user, assistant), user.
C4_MessageShape ==
    \A g \in Gens :
        /\ messages[g] # <<>> => RolesFor(messages[g], Len(history[g]))
        /\ request[g] # <<>>
              => /\ request[g][1].messages = messages[g]
                 /\ RolesFor(request[g][1].messages, Len(history[g]))

\* a request was submitted for a history of two turns: six messages
C4_Witness ==
    /\ request[1] # <<>>
    /\ Len(history[1]) = 2
    /\ Len(request[1][1].messages) = 6

\* C5: the content of the final user message is "Here is my description: ",
\* the query, a blank line and the context passage of that turn's retrieved
\* items.
C5_FinalUserMessage ==
    \A g \in Gens :
        messages[g] # <<>>
            => /\ Last(messages[g]).role = "user"
               /\ Last(messages[g]).content =
                     <<"Here is my description: ">> \o description[g]
                         \o <<"\n\n">> \o make_context(similars[g][1])
               /\ IsPrefix(<<"Here is my description: ">> \o description[g],
                           Last(messages[g]).content)

\* messages were assembled for the machine-learning query with three
\* retrieved items
C5_Witness ==
    /\ messages[1] # <<>>
    /\ description[1] = <<"Who specializes in ", "machine learning", "?">>
    /\ Len(similars[1][1].documents) = 3

\* C6: the i-th turn of the history (from 0) is the user message at position
\* 1+2i and the assistant message at position 2+2i (positions from 0), with
\* the turn's texts: no turn is reordered, merged, dropped or duplicated.
C6_TurnsInOrder ==
    \A g \in Gens :
        messages[g] # <<>>
            => /\ Len(messages[g]) = 2 * Len(history[g]) + 2
               /\ \A i \in 1..Len(history[g]) :
                     /\ messages[g][2 * i] =
                           [role |-> "user", content |-> history[g][i][1]]
                     /\ messages[g][2 * i + 1] =
                           [role |-> "assistant",
                            content |-> history[g][i][2]]

\* messages were assembled for a history of two different turns
C6_Witness ==
    /\ messages[1] # <<>>
    /\ Len(history[1]) = 2
    /\ history[1][1] # history[1][2]

\* C7: two invocations with the same query, the same history and the same
\* retrieval result assemble the same messages, whatever ran before or in
\* between.
C7_AssemblyPure ==
    \A g \in Gens, h \in Gens :
        (/\ messages[g] # <<>>
         /\ messages[h] # <<>>
         /\ description[g] = description[h]
         /\ history[g] = history[h]
         /\ similars[g] = similars[h])
            => messages[g] = messages[h]

\* two invocations with the same inputs and a non-empty history have both
\* assembled their messages
C7_Witness ==
    /\ messages[1] # <<>>
    /\ messages[2] # <<>>
    /\ description[1] = description[2]
    /\ history[1] = history[2]
    /\ history[1] # <<>>
    /\ similars[1] = similars[2]

\* the distances of an index result never decrease along the list
NearestFirst(res) ==
    \A i \in 1..Len(res.distances[1]), j \in 1..Len(res.distances[1]) :
        i < j => res.distances[1][i] <= res.distances[1][j]

\* C8: find_similars asks the index for exactly 10 neighbours and returns at
\* most 10 items, the documents of the index result in the order of the index
\* (nearest first): nothing is re-ranked, filtered or deduplicated.
C8_TopTenInIndexOrder ==
    \A g \in Gens :
        /\ n_results[g] \in {0, 10}
        /\ results[g] # <<>> => n_results[g] = 10
        /\ similars[g] # <<>>
              => /\ Len(similars[g][1].documents) <= 10
                 /\ Len(similars[g][1].names) <= 10
                 /\ Len(similars[g][1].links) <= 10
                 /\ similars[g][1].documents = results[g][1].documents[1]
                 /\ NearestFirst(results[g][1])

\* an index of more than 10 records was queried and 10 items came back, a
\* duplicate among them, in an order that is not the store's own
C8_Witness ==
    /\ Len(collection) > 10
    /\ similars[1] # <<>>
    /\ Len(similars[1][1].documents) = 10
    /\ similars[1][1].documents[1] # collection[1].doc
    /\ \E i \in 1..10, j \in 1..10 :
          i # j /\ similars[1][1].documents[i] = similars[1][1].documents[j]

\* C9: the documents, names and links returned by find_similars have the
\* same length, and document i, name i and link i are those of the i-th
\* record of the index result.
C9_ParallelAligned ==
    \A g \in Gens :
        similars[g] # <<>>
            => LET s == similars[g][1]
                   r == results[g][1]
               IN  /\ Len(s.documents) = Len(r.documents[1])
                   /\ Len(s.names) = Len(s.documents)
                   /\ Len(s.links) = Len(s.documents)
                   /\ \A i \in 1..Len(s.documents) :
                         /\ s.documents[i] = r.documents[1][i]
                         /\ s.names[i] = r.metadatas[1][i].name
                         /\ s.links[i] = r.metadatas[1][i].url

\* three different records were retrieved
C9_Witness ==
    /\ similars[1] # <<>>
    /\ Len(similars[1][1].documents) = 3
    /\ similars[1][1].names[1] # similars[1][1].names[2]
    /\ similars[1][1].names[2] # similars[1][1].names[3]
    /\ similars[1][1].links[1] # similars[1][1].links[3]

\* C10: when a record of the index result lacks `name` or `url`, the turn
\* does not fail: the retrieval result and the messages are built.
C10_MissingMetadataAbsorbed ==
    \A g \in Gens :
        (results[g] # <<>> /\ raises_KeyError(results[g][1]))
            => /\ error[g] # "KeyError"
               /\ similars[g] # <<>>
               /\ messages[g] # <<>>

\* the context passage inside the final user message of generator g: what
\* follows "Here is my description: ", the description and the blank line
ContextOf(g) ==
    SubSeq(Last(messages[g]).content, Len(description[g]) + 3,
           Len(Last(messages[g]).content))

\* C11: make_context of an empty retrieval result is exactly the fixed,
\* non-empty introductory sentence.
C11_EmptyContext ==
    \A g \in Gens :
        (/\ similars[g] # <<>>
         /\ similars[g][1].documents = <<>>
         /\ similars[g][1].names = <<>>
         /\ similars[g][1].links = <<>>)
            => /\ make_context(similars[g][1]) =
                     <<"To provide some context, here are some faculty members that might be relevant to your description.\n\n">>
               /\ ContextOf(g) = make_context(similars[g][1])
               /\ ContextOf(g) # <<>>
               /\ ContextOf(g)[1] # ""

\* the index is empty, nothing was retrieved and the messages are built
C11_Witness ==
    /\ collection = <<>>
    /\ similars[1] # <<>>
    /\ similars[1][1].documents = <<>>
    /\ messages[1] # <<>>

\* the block of the i-th retrieved item, as the passage spells it
ItemBlock(s, i) ==
    <<"Potentially related faculty:\n">> \o s.names[i]
        \o <<"\n\n        website: ">> \o s.links[i]
        \o <<"\n\n        ">> \o s.documents[i] \o <<"\n\n">>

\* the blocks of the first n retrieved items, in input order
RECURSIVE BlocksUpTo(_, _)
BlocksUpTo(s, n) ==
    IF n = 0 THEN <<>> ELSE BlocksUpTo(s, n - 1) \o ItemBlock(s, n)

\* the first k items of a retrieval result
Take(s, k) ==
    [documents |-> SubSeq(s.documents, 1, k),
     names |-> SubSeq(s.names, 1, k),
     links |-> SubSeq(s.links, 1, k)]

\* C12: when the messages of a turn have just been built from n retrieved
\* items, the context passage in them is the introductory sentence
\* followed by exactly n blocks, the i-th with name i, link i and document i;
\* appending an item never makes the passage shorter.
C12_ContextBlocks ==
    \A g \in Gens :
        pc[g] = "complete"
            => LET s == similars[g][1]
                   n == Len(s.documents)
               IN  /\ ContextOf(g) =
                         <<"To provide some context, here are some faculty members that might be relevant to your description.\n\n">>
                             \o BlocksUpTo(s, n)
                   /\ \A k \in 0..(n - 1) :
                         /\ IsPrefix(make_context(Take(s, k)),
                                     make_context(Take(s, k + 1)))
                         /\ Len(make_context(Take(s, k)))
                               < Len(make_context(Take(s, k + 1)))

\* three items A, B, C were retrieved for the machine-learning query
C12_Witness ==
    /\ pc[1] = "complete"
    /\ description[1] = <<"Who specializes in ", "machine learning", "?">>
    /\ Len(similars[1][1].names) = 3
    /\ {similars[1][1].names[i] : i \in 1..3} = {<<"A">>, <<"B">>, <<"C">>}
    /\ messages[1] # <<>>

\* the index lookup of generator g was made and gave no result
IndexLookupFailed(g) ==
    /\ \E i \in 1..Len(calls[g]) : calls[g][i] = "query"
    /\ results[g] = <<>>

\* C13: when the index lookup fails, its failure reaches the caller as it is;
\* no item list is returned, no element is yielded and no completion is
\* requested.
C13_IndexFailurePropagates ==
    \A g \in Gens :
        IndexLookupFailed(g)
            => /\ pc[g] = "failed"
               /\ error[g] = "IndexQueryError"
               /\ similars[g] = <<>>
               /\ messages[g] = <<>>
               /\ yielded[g] = <<>>
               /\ request[g] = <<>>
               /\ calls[g] = <<"embed", "query">>

\* the index lookup failed after a successful embedding
C13_Witness ==
    /\ IndexLookupFailed(1)
    /\ embedding[1] # <<>>
    /\ error[1] = "IndexQueryError"

\* the embedding call of generator g was made and gave no vector
EmbeddingFailed(g) == calls[g] # <<>> /\ embedding[g] = <<>>

\* C14: when the embedding call fails, the failure reaches the caller as it
\* is, after that one call: no retry, no index lookup, no completion request.
C14_EmbeddingFailurePropagates ==
    \A g \in Gens :
        EmbeddingFailed(g)
            => /\ pc[g] = "failed"
               /\ error[g] = "EmbeddingError"
               /\ calls[g] = <<"embed">>
               /\ n_results[g] = 0
               /\ results[g] = <<>>
               /\ request[g] = <<>>
               /\ yielded[g] = <<>>

\* the embedding call failed
C14_Witness == EmbeddingFailed(1) /\ error[1] = "EmbeddingError"

\* C15: when the provider fails after delivering chunks, the iteration ends
\* with an error, the elements yielded are one per chunk delivered and the
\* last is the concatenation of exactly those chunks; the failing step and
\* every later step of that generator leave the yielded elements as they were.
C15_PartialAnswerKept ==
    /\ [](\A g \in Gens :
            (pc[g] = "failed" /\ delivered[g] # <<>>)
                => /\ error[g] = "CompletionError"
                   /\ Len(yielded[g]) = Len(delivered[g])
                   /\ Last(yielded[g]) = ChunksText(delivered[g]))
    /\ [][\A g \in Gens :
            (pc[g] \in {"pull", "failed"} /\ pc'[g] = "failed")
                => yielded'[g] = yielded[g]]_vars

\* the provider failed after "Dr. " and "Smith is" were delivered
C15_Witness ==
    /\ pc[1] = "failed"
    /\ error[1] = "CompletionError"
    /\ Len(delivered[1]) = 2
    /\ Last(yielded[1]) = <<"Dr. ", "Smith", " is">>

\* C16: when the completion fails before any chunk, the caller gets an error
\* and no element, not even an empty one.
C16_NoElementBeforeFirstChunk ==
    \A g \in Gens :
        (/\ \E i \in 1..Len(calls[g]) : calls[g][i] = "complete"
         /\ pc[g] \in Terminal
         /\ delivered[g] = <<>>)
            => /\ yielded[g] = <<>>
               /\ pc[g] = "failed" => error[g] = "CompletionError"

\* the completion request itself failed
C16_Witness ==
    /\ pc[1] = "failed"
    /\ error[1] = "CompletionError"
    /\ calls[1] = <<"embed", "query", "complete">>
    /\ delivered[1] = <<>>

\* C17: the external calls of a turn are, in this order, the embedding call,
\* the index lookup and the completion request, each at most once, each made
\* only after the one before it returned a result.
C17_CallOrder ==
    \A g \in Gens :
        /\ calls[g] \in {<<>>, <<"embed">>, <<"embed", "query">>,
                         <<"embed", "query", "complete">>}
        /\ Len(calls[g]) >= 2 => embedding[g] # <<>>
        /\ Len(calls[g]) >= 3 => results[g] # <<>> /\ similars[g] # <<>>
        /\ request[g] # <<>> => Len(calls[g]) = 3

\* all three calls were made and the stream delivered a chunk
C17_Witness ==
    /\ calls[1] = <<"embed", "query", "complete">>
    /\ delivered[1] # <<>>

\* the messages a turn must submit, from its own inputs and its own index
\* result alone
OwnMessages(g) ==
    <<system_message>>
        \o [i \in 1..(2 * Len(history[g])) |->
               [role |-> IF i % 2 = 1 THEN "user" ELSE "assistant",
                content |-> history[g][(i + 1) \div 2][2 - (i % 2)]]]
        \o << [role |-> "user",
               content |-> <<"Here is my description: ">> \o description[g]
                               \o <<"\n\n">>
                               \o make_context(find_similars(results[g][1]))] >>

\* C18: with two turns running at once, each turn's messages come from its
\* own query, history and index result, and each turn's yielded elements from
\* its own chunks: nothing of the other turn appears in them.
C18_TurnsIsolated ==
    \A g \in Gens :
        /\ messages[g] # <<>> => messages[g] = OwnMessages(g)
        /\ request[g] # <<>> => request[g][1].messages = OwnMessages(g)
        /\ Len(yielded[g]) = Len(delivered[g])
        /\ \A i \in 1..Len(yielded[g]) :
              yielded[g][i] = ChunksText(SubSeq(delivered[g], 1, i))
        /\ pc[g] \in {"pull", "suspended"}
              => response[g] = ChunksText(delivered[g])

\* both turns are streaming at once, with different queries, histories and
\* chunks
C18_Witness ==
    /\ pc[1] = "suspended"
    /\ pc[2] = "suspended"
    /\ description[1] # description[2]
    /\ history[1] # history[2]
    /\ yielded[1] # yielded[2]
    /\ yielded[1][1] # <<>>
    /\ yielded[2][1] # <<>>

\* the entries a scrape in debug mode may keep: the first five of page 1
FirstFive == {<<1, k>> : k \in 1..5}

\* C19: with debug enabled a scrape processes at most the first 5 faculty
\* members in all: only the first 5 entries of the first page are taken, the
\* GSBS scraper requests no further page, and faculty_list has at most 5
\* entries.
C19_DebugAtMostFive ==
    debug =>
        /\ Len(faculty_divs) <= 5
        /\ Len(local_faculty_list) <= 5
        /\ \A i \in 1..Len(local_faculty_list) :
              <<local_faculty_list[i].page, local_faculty_list[i].place>>
                  \in FirstFive
        /\ faculty_list # <<>> =>
              /\ Len(faculty_list[1]) <= 5
              /\ faculty_list[1] = local_faculty_list
        /\ \A i \in 1..Len(fetched) : fetched[i] = 1
        /\ Len(fetched) <= 2
        /\ page_num <= 1

\* a GSBS scrape in debug mode of a directory whose first page lists more
\* than 5 entries and links to a second page: it ended with 5 entries stored
C19_Witness ==
    /\ debug
    /\ scraper_class = "GSBSFacultyScraper"
    /\ Len(directory.divs[1]) > 5
    /\ directory.next[1] = 2
    /\ spc = "returned"
    /\ faculty_list # <<>>
    /\ Len(faculty_list[1]) = 5

\* C20: scrape_faculty_list returns the list it collected, the same list it
\* stores in faculty_list, whichever scraper class it is called on.
C20_ReturnsStoredList ==
    spc = "returned" =>
        /\ ~returned[1].is_none
        /\ faculty_list = <<returned[1].value>>

\* C21: save_to_jsonl called when there is no faculty data (no scrape was
\* run, or the scrape collected nothing) reports that there is nothing to
\* save and returns without raising; the output file, which only a call
\* that has data touches, is then as it was.
C21_SaveWithoutData ==
    (/\ save_result # "none"
     /\ \/ faculty_list = <<>>
        \/ faculty_list = << <<>> >>)
        => save_result = "nothing to save"

\* C22: a chunk is read off the provider stream only when the consumer asks
\* for the next element, so closing the iteration after element i leaves
\* chunk i+1 and all later ones unread; closing raises nothing.
C22_CloseStopsProducer ==
    /\ [](\A g \in Gens :
            /\ Len(delivered[g]) = Len(yielded[g])
            /\ pc[g] = "closed" => error[g] = NoError)
    /\ [][\A g \in Gens :
            /\ (delivered'[g] # delivered[g] /\ pc'[g] # "none")
                  => pc[g] = "pull"
            /\ (pc[g] = "closed" \/ pc'[g] = "closed")
                  => (pc'[g] = "none" \/ delivered'[g] = delivered[g])]_vars

\* the iteration was closed after its first element, with chunks still to
\* come
C22_Witness ==
    /\ pc[1] = "closed"
    /\ Len(yielded[1]) = 1
    /\ Len(delivered[1]) = 1
    /\ MaxChunks > 1

\* C23: two runs with the same query, the same history, the same index and
\* the same chunks submit the same completion request (seed 42, streaming)
\* and yield the same elements.
C23_Reproducible ==
    \A g \in Gens, h \in Gens :
        (description[g] = description[h] /\ history[g] = history[h])
            => /\ (request[g] # <<>> /\ request[h] # <<>>)
                     => /\ request[g] = request[h]
                        /\ request[g][1].seed = 42
                        /\ request[g][1].stream
               /\ delivered[g] = delivered[h] => yielded[g] = yielded[h]

\* two runs with the same inputs both streamed the same chunk
C23_Witness ==
    /\ description[1] = description[2]
    /\ history[1] = history[2]
    /\ history[1] # <<>>
    /\ request[1] # <<>>
    /\ request[2] # <<>>
    /\ delivered[1] = delivered[2]
    /\ yielded[1] # <<>>
    /\ yielded[1][1] # <<>>

\* C24: calling gpt_4o_mini_rag does no work: no external call is made and no
\* failure raised before the consumer asks for the first element, and a
\* generator that is never iterated makes no external call at all.
C24_NothingBeforeFirstNext ==
    /\ [](\A g \in Gens :
            /\ pc[g] \in {"none", "created"}
                  => /\ calls[g] = <<>>
                     /\ error[g] = NoError
                     /\ embedding[g] = <<>>
                     /\ request[g] = <<>>
            /\ (pc[g] = "closed" /\ yielded[g] = <<>>) => calls[g] = <<>>)
    /\ [][\A g \in Gens :
            (pc[g] \in {"none", "created"} /\ pc'[g] # "embed")
                => /\ calls'[g] = <<>>
                   /\ error'[g] = NoError]_vars

\* a generator was created and closed without ever being iterated
C24_Witness ==
    /\ pc[1] = "closed"
    /\ description[1] # <<>>
    /\ yielded[1] = <<>>
    /\ calls[1] = <<>>

\* C25: a turn leaves its inputs as they were: while the generator exists,
\* the caller's history and query do not change, and the retrieved item lists
\* stay what find_similars returned.
C25_InputsUnchanged ==
    /\ [](\A g \in Gens :
            similars[g] # <<>> => similars[g][1] = find_similars(results[g][1]))
    /\ [][\A g \in Gens :
            (pc[g] # "none" /\ pc'[g] # "none")
                => /\ history'[g] = history[g]
                   /\ description'[g] = description[g]
                   /\ results[g] # <<>> => results'[g] = results[g]
                   /\ similars[g] # <<>> => similars'[g] = similars[g]]_vars

\* a turn with two prior turns and retrieved items ran to its end
C25_Witness ==
    /\ pc[1] = "done"
    /\ Len(history[1]) = 2
    /\ similars[1] # <<>>
    /\ similars[1][1].documents # <<>>
    /\ yielded[1] # <<>>

\* C26: a profile page that cannot be fetched does not abort the scrape of
\* the base (SPH) or GSBS scraper: no exception leaves scrape_faculty_list
\* because of it (AttributeError is what reading .text of the error string
\* raises), so the remaining entries are processed and faculty_list is set.
C26_ProfileFailureAbsorbed ==
    scraper_class \in {"SPHFacultyScraper", "GSBSFacultyScraper"}
        => /\ scrape_error # "AttributeError"
           /\ (spc = "raised" /\ scrape_error = "AttributeError")
                 => faculty_list # <<>>

\* C27: with debug disabled the GSBS pagination loop requests each directory
\* page at most once (the first request on record is the constructor's), so
\* it cannot go round a cycle of next-page links and ends on every finite
\* directory.
C27_EachPageOnce ==
    (scraper_class = "GSBSFacultyScraper" /\ ~debug)
        => \A i \in 2..Len(fetched), j \in 2..Len(fetched) :
              i < j => fetched[i] # fetched[j]

====
